---- MODULE Spec2Model ----
(***************************************************************************)
(* queuectl: a job queue kept in one SQLite file, shared by worker         *)
(* processes and CLI invocations.  Every SQL statement is one atomic step  *)
(* on the store; a handler made of several statements is a little process  *)
(* whose statements interleave with those of the other processes.          *)
(***************************************************************************)
EXTENDS Integers, Sequences, FiniteSets, TLC

\* ------------------------------------------------------------------ bounds

Workers == {"w1", "w2"}
Clients == {"c1", "c2"}
JobIds == {"j1", "j2"}
\* "exit 1" always fails, "echo ok" always succeeds, "flaky" may do either
Commands == {"echo ok", "exit 1", "flaky"}
MaxTime == 2
MaxRetriesArg == 2
\* the clock of the single-worker scenario runs longer
ScenarioMaxTime == 12
\* the clock of the shutdown scenario outlasts the grace period
StopMaxTime == 31
\* the clock under which two retries scheduled at different times are both due
OrderMaxTime == 3
\* the clock of the fair two-worker runs
LiveMaxTime == 3

\* ------------------------------------------------------------------ values

NULL == "NULL"
NoTime == -1
DefaultMaxRetries == 3
\* const maxWait = 30000
GracePeriod == 30
PollSeconds == 1

VARIABLES
    jobs,      \* the jobs table: id -> row (updated_at, which no operation reads, is left out)
    config,    \* the config table: key -> value
    now,       \* wall clock, in seconds
    wpc,       \* each worker's position in Worker.process
    wjob,      \* each worker's `job` local: the fields executeJob reads of the row it was given
    wake,      \* when a sleeping worker's timer fires
    cli,       \* each CLI invocation's position in its handler
    revived,   \* history: the jobs a retryFromDLQ has ever written
    stop,      \* when each worker received its stop request (this.running is false from then on)
    execs      \* history: command executions started per job since creation / DLQ retry

vars == <<jobs, config, now, wpc, wjob, wake, cli, execs, revived, stop>>

States == {"pending", "processing", "completed", "failed", "dead"}

NoJob == [id |-> NULL]
Idle == [op |-> "idle"]

\* ------------------------------------------------------------------ storage

RECURSIVE Pow(_, _)
Pow(b, k) == IF k = 0 THEN 1 ELSE b * Pow(b, k - 1)

getJob(id) == IF id \in DOMAIN jobs THEN jobs[id] ELSE NoJob

\* the row as the worker loop holds it: executeJob reads id, command, attempts, max_retries
rowToJob(row) ==
    IF row = NoJob THEN NoJob
    ELSE [id |-> row.id, command |-> row.command,
          attempts |-> row.attempts, max_retries |-> row.max_retries]

\* INSERT INTO jobs: the columns createJob does not name take their defaults
createJob(job) ==
    (job.id :> [id |-> job.id,
                command |-> job.command,
                state |-> job.state,
                attempts |-> job.attempts,
                max_retries |-> IF job.max_retries = 0 THEN DefaultMaxRetries ELSE job.max_retries,
                created_at |-> job.created_at,
                next_retry_at |-> NoTime,
                worker_id |-> NULL,
                error_message |-> NULL]) @@ jobs

\* UPDATE jobs SET <updates> WHERE id = ?: the named columns change, whatever the row's state
updateJob(id, updates) ==
    IF id \in DOMAIN jobs
    THEN [jobs EXCEPT ![id] =
            [f \in DOMAIN jobs[id] |->
                IF f \in DOMAIN updates THEN updates[f] ELSE jobs[id][f]]]
    ELSE jobs

\* result.changes of an UPDATE that lacks the state = 'pending' condition
lockJobChanges_NoStateGuard(id) == IF id \in DOMAIN jobs THEN 1 ELSE 0

\* result.changes of lockJob's UPDATE
lockJobChanges(id) == IF id \in DOMAIN jobs /\ jobs[id].state = "pending" THEN 1 ELSE 0

\* UPDATE jobs SET state='processing', worker_id=? WHERE id=? AND state='pending'
lockJob(id, workerId) ==
    IF lockJobChanges(id) > 0
    THEN [jobs EXCEPT ![id].state = "processing",
                      ![id].worker_id = workerId]
    ELSE jobs

\* the same SELECT with ORDER BY created_at DESC
getNextPendingJob_NewestFirst ==
    {id \in DOMAIN jobs :
        /\ jobs[id].state = "pending"
        /\ \A o \in DOMAIN jobs :
              jobs[o].state = "pending" => jobs[id].created_at >= jobs[o].created_at}

\* SELECT ... WHERE state='pending' ORDER BY created_at ASC LIMIT 1: the rows it may return
getNextPendingJob ==
    {id \in DOMAIN jobs :
        /\ jobs[id].state = "pending"
        /\ \A o \in DOMAIN jobs :
              jobs[o].state = "pending" => jobs[id].created_at <= jobs[o].created_at}

\* SELECT * FROM jobs WHERE state = ?: the ids of the rows listed
listJobs(state) == {id \in DOMAIN jobs : jobs[id].state = state}

\* the same counts taken over the jobs that are not in the DLQ
getStats_SkipDead ==
    [st \in States |-> IF st = "dead" THEN 0 ELSE Cardinality(listJobs(st))]

\* SELECT state, COUNT(*) FROM jobs GROUP BY state, over the five states
getStats == [st \in States |-> Cardinality(listJobs(st))]

\* the status action's Total: Object.values(stats).reduce((a, b) => a + b, 0)
Total ==
    getStats["pending"] + getStats["processing"] + getStats["completed"]
        + getStats["failed"] + getStats["dead"]

\* the WHERE clause without the condition on next_retry_at
Retryable_IgnoreDueTime(id) ==
    /\ jobs[id].state = "failed"
    /\ jobs[id].attempts < jobs[id].max_retries

\* WHERE state = 'failed' AND attempts < max_retries
\*   AND (next_retry_at IS NULL OR next_retry_at <= ?)
Retryable(id) ==
    /\ jobs[id].state = "failed"
    /\ jobs[id].attempts < jobs[id].max_retries
    /\ (jobs[id].next_retry_at = NoTime \/ jobs[id].next_retry_at <= now)

\* the same SELECT with ORDER BY next_retry_at DESC
getRetryableJobs_LatestFirst ==
    {id \in DOMAIN jobs :
        /\ Retryable(id)
        /\ \A o \in DOMAIN jobs :
              Retryable(o) => jobs[id].next_retry_at >= jobs[o].next_retry_at}

\* SELECT ... ORDER BY next_retry_at ASC LIMIT 1 (NULL sorts first): the rows it may return
getRetryableJobs ==
    {id \in DOMAIN jobs :
        /\ Retryable(id)
        /\ \A o \in DOMAIN jobs :
              Retryable(o) => jobs[id].next_retry_at <= jobs[o].next_retry_at}

\* ------------------------------------------------------------------ config

\* the argument strings a caller may pass to `config set`
MaxRetriesArgs == {"0", "2", "-1", "abc", "2x"}
BackoffArgs == {"1", "0", "abc", "1x"}

\* the strings parseInt / parseFloat turn into a number, and that number: both read the
\* longest numeric prefix and ignore what follows it
IsNumeric(s) == s \in {"-1", "0", "1", "2", "3", "1x", "2x"}
parseNum(s) ==
    CASE s = "-1" -> -1
      [] s = "0" -> 0
      [] s = "1" -> 1
      [] s = "2" -> 2
      [] s = "3" -> 3
      [] s = "1x" -> 1
      [] s = "2x" -> 2

\* Number.prototype.toString
toString(n) ==
    CASE n = 0 -> "0"
      [] n = 1 -> "1"
      [] n = 2 -> "2"
      [] n = 3 -> "3"

getConfig(key) == IF key \in DOMAIN config THEN config[key] ELSE NULL

\* INSERT OR REPLACE INTO config
setConfig(key, value) == (key :> value) @@ config

getMaxRetries ==
    parseNum(IF getConfig("max_retries") = NULL THEN "3" ELSE getConfig("max_retries"))

getBackoffBase ==
    parseNum(IF getConfig("backoff_base") = NULL THEN "2" ELSE getConfig("backoff_base"))

\* ------------------------------------------------------------------ initial state

\* Storage.init on a fresh file: empty jobs table, seeded config table
Init ==
    /\ jobs = <<>>
    /\ config = ("max_retries" :> "3") @@ ("backoff_base" :> "2")
    /\ now = 0
    /\ wpc = [w \in Workers |-> "poll"]
    /\ wjob = [w \in Workers |-> NoJob]
    /\ wake = [w \in Workers |-> 0]
    /\ cli = [c \in Clients |-> Idle]
    /\ execs = [j \in JobIds |-> 0]
    /\ revived = {}
    /\ stop = [w \in Workers |-> NoTime]

\* ------------------------------------------------------------------ clock

TickTo(limit) ==
    /\ now < limit
    /\ now' = now + 1
    /\ UNCHANGED <<jobs, config, wpc, wjob, wake, cli, execs, revived, stop>>

Tick == TickTo(MaxTime)

\* ------------------------------------------------------------------ Queue.getNextJob

\* a getNextJob that looks at the retry pool without looking at the pending pool
PollPending_RetryFirst(w) ==
    /\ wpc[w] = "poll"
    /\ stop[w] = NoTime
    /\ wpc' = [wpc EXCEPT ![w] = "retry"]
    /\ UNCHANGED <<jobs, config, now, wjob, wake, cli, execs, revived, stop>>

\* while (this.running) { let job = this.storage.getNextPendingJob(); if (job) return job;
PollPending(w) ==
    /\ wpc[w] = "poll"
    /\ stop[w] = NoTime
    /\ IF getNextPendingJob # {}
       THEN \E id \in getNextPendingJob :
               /\ wjob' = [wjob EXCEPT ![w] = rowToJob(jobs[id])]
               /\ wpc' = [wpc EXCEPT ![w] = "lock"]
       ELSE /\ wpc' = [wpc EXCEPT ![w] = "retry"]
            /\ UNCHANGED wjob
    /\ UNCHANGED <<jobs, config, now, wake, cli, execs, revived, stop>>

\* job = this.storage.getRetryableJobs(); none: getNextJob returns null, the loop sleeps
PollRetryable(w) ==
    /\ wpc[w] = "retry"
    /\ IF getRetryableJobs # {}
       THEN \E id \in getRetryableJobs :
               /\ wjob' = [wjob EXCEPT ![w] = rowToJob(jobs[id])]
               /\ wpc' = [wpc EXCEPT ![w] = "requeue"]
               /\ UNCHANGED wake
       ELSE /\ wpc' = [wpc EXCEPT ![w] = "sleep"]
            /\ wake' = [wake EXCEPT ![w] = now + PollSeconds]
            /\ UNCHANGED wjob
    /\ UNCHANGED <<jobs, config, now, cli, execs, revived, stop>>

\* a retry branch that returns the selected job without resetting it to pending
Requeue_NoWrite(w) ==
    /\ wpc[w] = "requeue"
    /\ wpc' = [wpc EXCEPT ![w] = "reread"]
    /\ UNCHANGED <<jobs, config, now, wjob, wake, cli, execs, revived, stop>>

\* this.storage.updateJob(job.id, { state: 'pending', next_retry_at: null })
Requeue(w) ==
    /\ wpc[w] = "requeue"
    /\ jobs' = updateJob(wjob[w].id, [state |-> "pending", next_retry_at |-> NoTime])
    /\ wpc' = [wpc EXCEPT ![w] = "reread"]
    /\ UNCHANGED <<config, now, wjob, wake, cli, execs, revived, stop>>

\* return this.storage.getJob(job.id)
Reread(w) ==
    /\ wpc[w] = "reread"
    /\ wjob' = [wjob EXCEPT ![w] = rowToJob(getJob(wjob[w].id))]
    /\ wpc' = [wpc EXCEPT ![w] = "lock"]
    /\ UNCHANGED <<jobs, config, now, wake, cli, execs, revived, stop>>

\* await this.sleep(1000)
Wake(w) ==
    /\ wpc[w] = "sleep"
    /\ now >= wake[w]
    /\ wpc' = [wpc EXCEPT ![w] = "poll"]
    /\ wake' = [wake EXCEPT ![w] = 0]
    /\ UNCHANGED <<jobs, config, now, wjob, cli, execs, revived, stop>>

\* ------------------------------------------------------------------ Queue.executeJob

\* executeJob going on to run the command whatever lockJob returned
Lock_IgnoreResult(w) ==
    /\ wpc[w] = "lock"
    /\ jobs' = lockJob(wjob[w].id, w)
    /\ wpc' = [wpc EXCEPT ![w] = "exec"]
    /\ execs' = [execs EXCEPT ![wjob[w].id] = @ + 1]
    /\ UNCHANGED <<config, now, wjob, wake, cli, revived, stop>>

\* const locked = this.storage.lockJob(job.id, workerId); if (!locked) return null;
\* a successful claim starts the command
Lock(w) ==
    /\ wpc[w] = "lock"
    /\ jobs' = lockJob(wjob[w].id, w)
    /\ IF lockJobChanges(wjob[w].id) > 0
       THEN /\ wpc' = [wpc EXCEPT ![w] = "exec"]
            /\ execs' = [execs EXCEPT ![wjob[w].id] = @ + 1]
            /\ UNCHANGED wjob
       ELSE /\ wpc' = [wpc EXCEPT ![w] = "poll"]
            /\ wjob' = [wjob EXCEPT ![w] = NoJob]
            /\ UNCHANGED execs
    /\ UNCHANGED <<config, now, wake, cli, revived, stop>>

Succeeds(command) == command \in {"echo ok", "flaky"}
Fails(command) == command \in {"exit 1", "flaky"}

\* the success update without the clearing of worker_id
successUpdates_KeepWorker == [state |-> "completed", error_message |-> NULL]

\* the success update without the clearing of error_message
successUpdates_KeepError == [state |-> "completed", worker_id |-> NULL]

\* { state: 'completed', worker_id: null, error_message: null }
successUpdates == [state |-> "completed", worker_id |-> NULL, error_message |-> NULL]

\* the command exits 0: updateJob(job.id, { state: 'completed', ... })
ExecSuccess(w) ==
    /\ wpc[w] = "exec"
    /\ Succeeds(wjob[w].command)
    /\ jobs' = updateJob(wjob[w].id, successUpdates)
    /\ wpc' = [wpc EXCEPT ![w] = "poll"]
    /\ wjob' = [wjob EXCEPT ![w] = NoJob]
    /\ UNCHANGED <<config, now, wake, cli, execs, revived, stop>>

\* the catch branch with the threshold test written attempts > maxRetries
failureUpdates_StrictThreshold(job) ==
    LET attempts == job.attempts + 1
        maxRetries == job.max_retries
        backoffBase == getBackoffBase
    IN  IF attempts > maxRetries
        THEN [state |-> "dead", attempts |-> attempts,
              worker_id |-> NULL, error_message |-> "error"]
        ELSE [state |-> "failed", attempts |-> attempts,
              next_retry_at |-> now + Pow(backoffBase, attempts),
              worker_id |-> NULL, error_message |-> "error"]

\* the catch branch with the delay computed as backoffBase * attempts
failureUpdates_LinearBackoff(job) ==
    LET attempts == job.attempts + 1
        maxRetries == job.max_retries
        backoffBase == getBackoffBase
    IN  IF attempts >= maxRetries
        THEN [state |-> "dead", attempts |-> attempts,
              worker_id |-> NULL, error_message |-> "error"]
        ELSE [state |-> "failed", attempts |-> attempts,
              next_retry_at |-> now + backoffBase * attempts,
              worker_id |-> NULL, error_message |-> "error"]

\* the catch branch with the threshold reached one attempt early
failureUpdates_EarlyThreshold(job) ==
    LET attempts == job.attempts + 1
        maxRetries == job.max_retries
        backoffBase == getBackoffBase
    IN  IF attempts + 1 >= maxRetries
        THEN [state |-> "dead", attempts |-> attempts,
              worker_id |-> NULL, error_message |-> "error"]
        ELSE [state |-> "failed", attempts |-> attempts,
              next_retry_at |-> now + Pow(backoffBase, attempts),
              worker_id |-> NULL, error_message |-> "error"]

\* the updates the catch branch of executeJob writes for the row `job`
failureUpdates(job) ==
    LET attempts == job.attempts + 1
        maxRetries == job.max_retries
        backoffBase == getBackoffBase
    IN  IF attempts >= maxRetries
        THEN [state |-> "dead", attempts |-> attempts,
              worker_id |-> NULL, error_message |-> "error"]
        ELSE [state |-> "failed", attempts |-> attempts,
              next_retry_at |-> now + Pow(backoffBase, attempts),
              worker_id |-> NULL, error_message |-> "error"]

\* the command fails (non-zero exit, timeout, not found)
ExecFailure(w) ==
    /\ wpc[w] = "exec"
    /\ Fails(wjob[w].command)
    /\ jobs' = updateJob(wjob[w].id, failureUpdates(wjob[w]))
    /\ wpc' = [wpc EXCEPT ![w] = "poll"]
    /\ wjob' = [wjob EXCEPT ![w] = NoJob]
    /\ UNCHANGED <<config, now, wake, cli, execs, revived, stop>>

\* ------------------------------------------------------------------ Worker.process: catch

\* a loop whose catch branch ends the worker
LoopError_Terminates(w) ==
    /\ wpc[w] \in {"poll", "retry", "requeue", "reread", "lock", "exec"}
    /\ wpc[w] = "poll" => stop[w] = NoTime
    /\ wpc' = [wpc EXCEPT ![w] = "exited"]
    /\ wjob' = [wjob EXCEPT ![w] = NoJob]
    /\ UNCHANGED <<jobs, config, now, wake, cli, execs, revived, stop>>

\* the statement the worker is at throws (a store error out of getNextJob, lockJob or
\* the result write): catch (error) { log; this.currentJob = null; await this.sleep(1000) }
LoopError(w) ==
    /\ wpc[w] \in {"poll", "retry", "requeue", "reread", "lock", "exec"}
    /\ wpc[w] = "poll" => stop[w] = NoTime
    /\ wpc' = [wpc EXCEPT ![w] = "sleep"]
    /\ wjob' = [wjob EXCEPT ![w] = NoJob]
    /\ wake' = [wake EXCEPT ![w] = now + PollSeconds]
    /\ UNCHANGED <<jobs, config, now, cli, execs, revived, stop>>

\* ------------------------------------------------------------------ Worker.stop

\* stop() leaving at once, whether or not a job is in flight
StopRequest_NoWait(w) ==
    /\ stop[w] = NoTime
    /\ wpc[w] \in {"exec", "sleep"}
    /\ stop' = [stop EXCEPT ![w] = now]
    /\ wpc' = [wpc EXCEPT ![w] = "exited"]
    /\ wake' = [wake EXCEPT ![w] = 0]
    /\ UNCHANGED <<jobs, config, now, wjob, cli, execs, revived>>

\* SIGINT / SIGTERM reach the process while it awaits the command or its sleep:
\* this.running = false; with no current job, removePid() and process.exit(0)
StopRequest(w) ==
    /\ stop[w] = NoTime
    /\ wpc[w] \in {"exec", "sleep"}
    /\ stop' = [stop EXCEPT ![w] = now]
    /\ IF wjob[w] # NoJob
       THEN UNCHANGED <<wpc, wake>>
       ELSE /\ wpc' = [wpc EXCEPT ![w] = "exited"]
            /\ wake' = [wake EXCEPT ![w] = 0]
    /\ UNCHANGED <<jobs, config, now, wjob, cli, execs, revived>>

\* the interval set by stop(): if (!this.currentJob || Date.now() - startTime > maxWait)
\* { removePid(); process.exit(0) }
StopExit(w) ==
    /\ stop[w] # NoTime
    /\ wpc[w] # "exited"
    /\ wjob[w] = NoJob \/ now - stop[w] > GracePeriod
    /\ wpc' = [wpc EXCEPT ![w] = "exited"]
    /\ wjob' = [wjob EXCEPT ![w] = NoJob]
    /\ UNCHANGED <<jobs, config, now, wake, cli, execs, revived, stop>>

\* ------------------------------------------------------------------ Queue.enqueue

\* the JSON descriptors a caller may pass; an absent field is NULL / <<>>
DescriptorsOf(ids, commands, retries) ==
    [id : ids \cup {NULL}, command : commands \cup {NULL}, max_retries : retries]

Descriptors ==
    DescriptorsOf(JobIds, {"flaky"}, {<<n>> : n \in 1..MaxRetriesArg})

\* the validation with the test of jobData.command left out
enqueueInvalid_NoCommandCheck(jobData) == jobData.id = NULL

\* if (!jobData.id) throw ...; if (!jobData.command) throw ...
enqueueInvalid(jobData) == jobData.id = NULL \/ jobData.command = NULL

\* validation and `const existing = this.storage.getJob(jobData.id)`: a throw ends the call
EnqueueCheck(c, jobData) ==
    /\ cli[c] = Idle
    /\ IF enqueueInvalid(jobData) \/ getJob(jobData.id) # NoJob
       THEN UNCHANGED cli
       ELSE cli' = [cli EXCEPT ![c] = [op |-> "enqueue", jobData |-> jobData]]
    /\ UNCHANGED <<jobs, config, now, wpc, wjob, wake, execs, revived, stop>>

\* max_retries: jobData.max_retries || this.config.getMaxRetries()
enqueueMaxRetries(jobData) ==
    IF jobData.max_retries # <<>> /\ jobData.max_retries[1] # 0
    THEN jobData.max_retries[1]
    ELSE getMaxRetries

\* a jobs table whose id column is no key: the INSERT never conflicts
primaryKeyConflict_Never(id) == FALSE

\* id TEXT PRIMARY KEY: an INSERT of an id the table holds fails
primaryKeyConflict(id) == id \in DOMAIN jobs

\* this.storage.createJob(job): the INSERT throws on an id that exists by now
EnqueueInsert(c) ==
    /\ cli[c].op = "enqueue"
    /\ LET jobData == cli[c].jobData IN
       IF primaryKeyConflict(jobData.id)
       THEN UNCHANGED jobs
       ELSE jobs' = createJob([id |-> jobData.id,
                               command |-> jobData.command,
                               state |-> "pending",
                               attempts |-> 0,
                               max_retries |-> enqueueMaxRetries(jobData),
                               created_at |-> now])
    /\ cli' = [cli EXCEPT ![c] = Idle]
    /\ UNCHANGED <<config, now, wpc, wjob, wake, execs, revived, stop>>

\* ------------------------------------------------------------------ Storage.retryFromDLQ

\* the test with the state condition left out
retryFromDLQRefused_NoStateCheck(id) == getJob(id) = NoJob

\* if (!job || job.state !== 'dead') return null
retryFromDLQRefused(id) == getJob(id) = NoJob \/ getJob(id).state # "dead"

\* const job = this.getJob(id); if (!job || job.state !== 'dead') return null;
RetryFromDLQCheck(c, id) ==
    /\ cli[c] = Idle
    /\ IF retryFromDLQRefused(id)
       THEN UNCHANGED cli
       ELSE cli' = [cli EXCEPT ![c] = [op |-> "dlq", id |-> id]]
    /\ UNCHANGED <<jobs, config, now, wpc, wjob, wake, execs, revived, stop>>

\* the update without the reset of attempts
retryFromDLQUpdates_KeepAttempts ==
    [state |-> "pending", next_retry_at |-> NoTime, error_message |-> NULL]

\* a manual retry that also takes the retry budget from the current configuration
retryFromDLQUpdates_ResetBudget ==
    [state |-> "pending", attempts |-> 0, next_retry_at |-> NoTime, error_message |-> NULL,
     max_retries |-> getMaxRetries]

\* { state: 'pending', attempts: 0, next_retry_at: null, error_message: null }
retryFromDLQUpdates ==
    [state |-> "pending", attempts |-> 0, next_retry_at |-> NoTime, error_message |-> NULL]

\* return this.updateJob(id, { state: 'pending', attempts: 0, ... }): the row it returns
\* is the one this UPDATE leaves
RetryFromDLQWrite(c) ==
    /\ cli[c].op = "dlq"
    /\ jobs' = updateJob(cli[c].id, retryFromDLQUpdates)
    /\ execs' = [execs EXCEPT ![cli[c].id] = 0]
    /\ revived' = revived \cup {cli[c].id}
    /\ cli' = [cli EXCEPT ![c] = Idle]
    /\ UNCHANGED <<config, now, wpc, wjob, wake, stop>>

\* ------------------------------------------------------------------ Storage.init

\* the seeding written with INSERT OR REPLACE
insertConfig_OrReplace(key, value) == (key :> value) @@ config

\* INSERT INTO config (key, value): fails on a key the table holds
insertConfig(key, value) == IF key \in DOMAIN config THEN config ELSE (key :> value) @@ config

\* a process opens the store: SELECT COUNT(*) FROM config; if (count === 0) seed
StorageInitCount(c) ==
    /\ cli[c] = Idle
    /\ IF config = <<>>
       THEN cli' = [cli EXCEPT ![c] = [op |-> "seed max_retries"]]
       ELSE UNCHANGED cli
    /\ UNCHANGED <<jobs, config, now, wpc, wjob, wake, execs, revived, stop>>

\* insert.run('max_retries', '3'): a conflict throws out of the constructor
SeedMaxRetries(c) ==
    /\ cli[c].op = "seed max_retries"
    /\ config' = insertConfig("max_retries", "3")
    /\ cli' = [cli EXCEPT ![c] = IF "max_retries" \in DOMAIN config
                                  THEN Idle
                                  ELSE [op |-> "seed backoff_base"]]
    /\ UNCHANGED <<jobs, now, wpc, wjob, wake, execs, revived, stop>>

\* insert.run('backoff_base', '2')
SeedBackoffBase(c) ==
    /\ cli[c].op = "seed backoff_base"
    /\ config' = insertConfig("backoff_base", "2")
    /\ cli' = [cli EXCEPT ![c] = Idle]
    /\ UNCHANGED <<jobs, now, wpc, wjob, wake, execs, revived, stop>>

\* ------------------------------------------------------------------ Config setters

\* const num = parseInt(value, 10); if (isNaN(num) || num < 0) throw ...
SetMaxRetries(value) ==
    /\ IF ~IsNumeric(value) \/ parseNum(value) < 0
       THEN UNCHANGED config
       ELSE config' = setConfig("max_retries", toString(parseNum(value)))
    /\ UNCHANGED <<jobs, now, wpc, wjob, wake, cli, execs, revived, stop>>

\* const num = parseFloat(value); if (isNaN(num) || num <= 0) throw ...
SetBackoffBase(value) ==
    /\ IF ~IsNumeric(value) \/ parseNum(value) <= 0
       THEN UNCHANGED config
       ELSE config' = setConfig("backoff_base", toString(parseNum(value)))
    /\ UNCHANGED <<jobs, now, wpc, wjob, wake, cli, execs, revived, stop>>

\* ------------------------------------------------------------------ specification

WorkerStep(w) ==
    \/ PollPending(w)
    \/ PollRetryable(w)
    \/ Requeue(w)
    \/ Reread(w)
    \/ Wake(w)
    \/ Lock(w)
    \/ ExecSuccess(w)
    \/ ExecFailure(w)

ClientStep(c, descriptors) ==
    \/ \E jobData \in descriptors : EnqueueCheck(c, jobData)
    \/ EnqueueInsert(c)
    \/ \E id \in JobIds : RetryFromDLQCheck(c, id)
    \/ RetryFromDLQWrite(c)

\* the dispatch protocol: two worker processes and one CLI caller on the shared store
Next ==
    \/ Tick
    \/ \E w \in Workers : WorkerStep(w)
    \/ ClientStep("c1", Descriptors)

Spec == Init /\ [][Next]_vars

\* one worker, one job of max_retries 3, a clock long enough for its whole retry cycle
ScenarioDescriptors == DescriptorsOf({"j1"}, {"exit 1", "echo ok"}, {<<3>>})

ScenarioNext ==
    \/ TickTo(ScenarioMaxTime)
    \/ WorkerStep("w1")
    \/ ClientStep("c1", ScenarioDescriptors)

SpecScenario == Init /\ [][ScenarioNext]_vars

\* the same scenario with a worker loop that keeps running and a clock that keeps advancing
FairScenario ==
    /\ SpecScenario
    /\ WF_vars(WorkerStep("w1"))
    /\ WF_vars(TickTo(ScenarioMaxTime))

\* two workers retrying one job of max_retries 3 over the same long clock
RetryDescriptors == DescriptorsOf({"j1"}, {"flaky"}, {<<3>>})

RetryNext ==
    \/ TickTo(ScenarioMaxTime)
    \/ \E w \in Workers : WorkerStep(w)
    \/ ClientStep("c1", RetryDescriptors)

SpecRetry == Init /\ [][RetryNext]_vars

\* one worker and a caller who also changes the configuration
ConfigDescriptors == DescriptorsOf({"j1"}, {"flaky"}, {<<>>, <<0>>, <<1>>})

ConfigNext ==
    \/ Tick
    \/ WorkerStep("w1")
    \/ ClientStep("c1", ConfigDescriptors)
    \/ \E value \in MaxRetriesArgs : SetMaxRetries(value)
    \/ \E value \in BackoffArgs : SetBackoffBase(value)

SpecConfig == Init /\ [][ConfigNext]_vars

\* one worker and a caller who only enqueues: no job is ever retried by hand
FifoDescriptors == DescriptorsOf(JobIds, {"flaky"}, {<<2>>})

FifoNext ==
    \/ Tick
    \/ WorkerStep("w1")
    \/ \E jobData \in FifoDescriptors : EnqueueCheck("c1", jobData)
    \/ EnqueueInsert("c1")

SpecFifo == Init /\ [][FifoNext]_vars

\* two workers that keep running, a clock that keeps advancing and finitely many jobs
\* (one id, enqueued at most once), nobody retrying from the DLQ
LiveDescriptors == DescriptorsOf({"j1"}, {"exit 1", "flaky"}, {<<2>>})

LiveNext ==
    \/ TickTo(LiveMaxTime)
    \/ \E w \in Workers : WorkerStep(w)
    \/ \E jobData \in LiveDescriptors : EnqueueCheck("c1", jobData)
    \/ EnqueueInsert("c1")

SpecLive ==
    /\ Init
    /\ [][LiveNext]_vars
    /\ \A w \in Workers : WF_vars(WorkerStep(w))
    /\ WF_vars(TickTo(LiveMaxTime))

\* one worker and two jobs that fail at different times, with a clock long enough for
\* both retries to be due at once
OrderNext ==
    \/ TickTo(OrderMaxTime)
    \/ WorkerStep("w1")
    \/ \E jobData \in FifoDescriptors : EnqueueCheck("c1", jobData)
    \/ EnqueueInsert("c1")

SpecOrder == Init /\ [][OrderNext]_vars

\* two workers and a caller who only enqueues
WorkersNext ==
    \/ Tick
    \/ \E w \in Workers : WorkerStep(w)
    \/ \E jobData \in Descriptors : EnqueueCheck("c1", jobData)
    \/ EnqueueInsert("c1")

SpecWorkers == Init /\ [][WorkersNext]_vars

\* one worker that is told to stop, over a clock that outlasts the grace period
StopDescriptors == DescriptorsOf({"j1"}, {"flaky"}, {<<2>>})

StopNext ==
    \/ TickTo(StopMaxTime)
    \/ WorkerStep("w1")
    \/ StopRequest("w1")
    \/ StopExit("w1")
    \/ \E jobData \in StopDescriptors : EnqueueCheck("c1", jobData)
    \/ EnqueueInsert("c1")

SpecStop == Init /\ [][StopNext]_vars

\* one worker whose store statements may throw; the loop keeps running, the clock advancing
FaultsNext ==
    \/ Tick
    \/ WorkerStep("w1")
    \/ LoopError("w1")
    \/ \E jobData \in Descriptors : EnqueueCheck("c1", jobData)
    \/ EnqueueInsert("c1")

SpecFaults ==
    /\ Init
    /\ [][FaultsNext]_vars
    /\ WF_vars(WorkerStep("w1"))
    /\ WF_vars(Tick)

\* a fresh store file: two processes open it, and whoever finds it seeded goes on to
\* use it as in SpecConfig
InitFresh ==
    /\ jobs = <<>>
    /\ config = <<>>
    /\ now = 0
    /\ wpc = [w \in Workers |-> "poll"]
    /\ wjob = [w \in Workers |-> NoJob]
    /\ wake = [w \in Workers |-> 0]
    /\ cli = [c \in Clients |-> Idle]
    /\ execs = [j \in JobIds |-> 0]
    /\ revived = {}
    /\ stop = [w \in Workers |-> NoTime]

StoreNext ==
    \/ \E c \in Clients : StorageInitCount(c)
    \/ \E c \in Clients : SeedMaxRetries(c)
    \/ \E c \in Clients : SeedBackoffBase(c)
    \/ config # <<>> /\ ConfigNext

SpecStore == InitFresh /\ [][StoreNext]_vars

\* one worker and two callers racing on one job id
CliDescriptors == DescriptorsOf({"j1"}, {"flaky"}, {<<1>>, <<2>>})

CliNext ==
    \/ Tick
    \/ WorkerStep("w1")
    \/ \E c \in Clients : ClientStep(c, CliDescriptors)

SpecCli == Init /\ [][CliNext]_vars

\* ------------------------------------------------------------------ claims

\* worker w holds a claim on job id: between its successful lockJob and its result write
Executing(w, id) == wpc[w] = "exec" /\ wjob[w].id = id

\* C1: no job is ever executed by two workers at the same time
C1_NoDoubleExecution ==
    \A id \in JobIds : \A w1, w2 \in Workers :
        (Executing(w1, id) /\ Executing(w2, id)) => w1 = w2

\* C2: a lockJob call succeeds exactly when the job is pending at that moment; the
\* winner leaves the job processing under its own worker id and no other row changed,
\* so every later caller finds it not pending; a losing call changes nothing
C2_LockExclusive ==
    [][\A w \in Workers :
          (wpc[w] = "lock" /\ wpc'[w] # "lock") =>
             LET id == wjob[w].id IN
             IF jobs[id].state = "pending"
             THEN /\ wpc'[w] = "exec"
                  /\ jobs'[id].state = "processing"
                  /\ jobs'[id].worker_id = w
                  /\ \A o \in DOMAIN jobs : o # id => jobs'[o] = jobs[o]
                  /\ \A v \in Workers \ {w} : wpc'[v] = wpc[v]
             ELSE /\ wpc'[w] = "poll"
                  /\ jobs' = jobs]_vars

\* two workers contend for one job: one holds the claim, the other is about to call lockJob
C2_Witness ==
    \E w1, w2 \in Workers :
        /\ w1 # w2
        /\ wpc[w1] = "exec" /\ wpc[w2] = "lock"
        /\ wjob[w1].id = wjob[w2].id
        /\ jobs[wjob[w1].id].state = "processing"
        /\ jobs[wjob[w1].id].worker_id = w1

C4_FourthFailureKills ==
    \A id \in DOMAIN jobs :
        (jobs[id].command = "exit 1" /\ jobs[id].max_retries = 3) =>
            /\ jobs[id].state = "dead" => (execs[id] = 4 /\ jobs[id].attempts = 4)
            /\ (jobs[id].state = "failed" /\ jobs[id].next_retry_at # NoTime) =>
                  /\ jobs[id].attempts \in 1..3
                  /\ jobs[id].attempts = execs[id]

\* C5: every change of a job's state is one of the six transitions of the state machine
AllowedTransition(id) ==
    LET s == jobs[id].state
        t == jobs'[id].state
    IN  \/ s = t
        \/ s = "pending" /\ t = "processing"
        \/ s = "processing" /\ t = "completed"
        \/ s = "processing" /\ t = "failed" /\ jobs'[id].attempts < jobs'[id].max_retries
        \/ s = "processing" /\ t = "dead" /\ jobs'[id].attempts >= jobs'[id].max_retries
        \/ s = "failed" /\ t = "pending"
        \/ s = "dead" /\ t = "pending"

C5_OnlyStateMachineTransitions ==
    [][\A id \in DOMAIN jobs : AllowedTransition(id)]_vars

\* C6: worker_id is non-null iff state = processing
C6_WorkerIdIffProcessing ==
    \A id \in DOMAIN jobs : jobs[id].worker_id # NULL <=> jobs[id].state = "processing"

\* C7: next_retry_at is non-null only if state = failed
C7_NextRetryOnlyWhenFailed ==
    \A id \in DOMAIN jobs : jobs[id].next_retry_at # NoTime => jobs[id].state = "failed"

\* the step is the write of a manual retryFromDLQ of job id
IsRetryFromDLQ(id) == \E c \in Clients : cli[c].op = "dlq" /\ cli[c].id = id /\ RetryFromDLQWrite(c)

\* C8: stored attempts never decreases, except in a retryFromDLQ step, which sets it to 0
C8_AttemptsMonotone ==
    [][\A id \in DOMAIN jobs :
          \/ jobs'[id].attempts >= jobs[id].attempts
          \/ IsRetryFromDLQ(id) /\ jobs'[id].attempts = 0]_vars

\* C9: once completed, a job's state never changes and its command is never run again
C9_CompletedTerminal ==
    [][\A id \in DOMAIN jobs :
          jobs[id].state = "completed" =>
             jobs'[id].state = "completed" /\ execs'[id] = execs[id]]_vars

\* C10: a dead job leaves dead only by a retryFromDLQ step, which resets attempts to 0
C10_DeadLeavesOnlyByManualRetry ==
    [][\A id \in DOMAIN jobs :
          (jobs[id].state = "dead" /\ jobs'[id].state # "dead") =>
             IsRetryFromDLQ(id) /\ jobs'[id].attempts = 0]_vars

\* C11: a failed execution that leaves the job retryable sets next_retry_at to the time
\* of the update plus backoff_base^k seconds, k the attempts it has just written
\* (1 <= k < max_retries) and backoff_base the value in the config table at that moment
C11_BackoffFormula ==
    [][\A w \in Workers :
          (ExecFailure(w) /\ jobs'[wjob[w].id].state = "failed") =>
             LET id == wjob[w].id
                 k == jobs'[id].attempts
                 b == parseNum(config["backoff_base"])
             IN  /\ k \in 1..(jobs[id].max_retries - 1)
                 /\ jobs'[id].next_retry_at = now + Pow(b, k)]_vars

\* a job has failed for the second time after the backoff base was changed to 1
C11_Witness ==
    \E id \in DOMAIN jobs :
        /\ jobs[id].state = "failed" /\ jobs[id].attempts = 2
        /\ config["backoff_base"] = "1"
        /\ jobs[id].next_retry_at = now + 1

\* C12: a failed job whose next_retry_at is set leaves failed for pending or processing
\* only at a time that has reached its next_retry_at
C12_NotBeforeDue ==
    [][\A id \in DOMAIN jobs :
          (/\ jobs[id].state = "failed"
           /\ jobs[id].next_retry_at # NoTime
           /\ jobs'[id].state \in {"pending", "processing"}) =>
             jobs[id].next_retry_at <= now]_vars

\* C13: a getNextJob call made while some job is pending returns a pending job of the
\* earliest created_at; and with a single worker, of two jobs never retried the one
\* created earlier is claimed first
C13_FifoPending ==
    /\ [][\A w \in Workers :
             (wpc[w] = "poll" /\ wpc'[w] # "poll") =>
                IF \E o \in DOMAIN jobs : jobs[o].state = "pending"
                THEN /\ wpc'[w] = "lock"
                     /\ wjob'[w].id \in DOMAIN jobs
                     /\ jobs[wjob'[w].id].state = "pending"
                     /\ \A o \in DOMAIN jobs :
                           jobs[o].state = "pending" =>
                              jobs[wjob'[w].id].created_at <= jobs[o].created_at
                ELSE wpc'[w] = "retry"]_vars
    /\ [](\A a, b \in DOMAIN jobs :
             (/\ jobs[a].created_at < jobs[b].created_at
              /\ jobs[a].attempts = 0 /\ jobs[b].attempts = 0
              /\ execs[b] > 0) => execs[a] > 0)

\* two jobs created at different times are both pending and the worker has been handed
\* the older one
C13_Witness ==
    \E a, b \in DOMAIN jobs :
        /\ jobs[a].created_at < jobs[b].created_at
        /\ jobs[a].state = "pending" /\ jobs[b].state = "pending"
        /\ jobs[a].attempts = 0 /\ jobs[b].attempts = 0
        /\ wpc["w1"] = "lock" /\ wjob["w1"].id = a

C15_DLQRetryRefused ==
    [][\A c \in Clients : \A id \in JobIds :
          (/\ RetryFromDLQCheck(c, id)
           /\ (id \notin DOMAIN jobs \/ jobs[id].state # "dead")) =>
             /\ cli'[c] = Idle
             /\ jobs' = jobs]_vars

\* both callers are idle while j1 is failed and waiting for its retry and j2 does not
\* exist: a retryFromDLQ of either is refused here
C15_Witness ==
    /\ \A c \in Clients : cli[c] = Idle
    /\ "j1" \in DOMAIN jobs /\ jobs["j1"].state = "failed"
    /\ "j2" \notin DOMAIN jobs
    /\ ENABLED RetryFromDLQCheck("c1", "j1")

\* C16: a revived max_retries=3 job whose command always fails starts again as a fresh
\* pending job with attempts=0, is failed after each of its next three executions
\* (attempts 1, 2, 3) and returns to dead only after those three failed attempts
C16_FreshCycleAfterRevival ==
    \A id \in revived :
        (jobs[id].command = "exit 1" /\ jobs[id].max_retries = 3) =>
            /\ execs[id] = 0 =>
                  /\ jobs[id].state = "pending" /\ jobs[id].attempts = 0
                  /\ jobs[id].next_retry_at = NoTime /\ jobs[id].error_message = NULL
            /\ jobs[id].state = "failed" =>
                  /\ jobs[id].attempts \in 1..3
                  /\ jobs[id].attempts = execs[id]
            /\ jobs[id].state = "dead" => execs[id] = 4

\* C17: an enqueue call whose descriptor lacks id or command ends at its validation,
\* with the caller idle again and the jobs table unchanged; no call with such a
\* descriptor gets as far as the insert and no row lacks an id or a command
C17_InvalidDescriptorRejected ==
    /\ [][\A c \in Clients : \A jobData \in CliDescriptors :
             (/\ EnqueueCheck(c, jobData)
              /\ (jobData.id = NULL \/ jobData.command = NULL)) =>
                /\ cli'[c] = Idle
                /\ jobs' = jobs]_vars
    /\ [](/\ \A c \in Clients :
               cli[c].op = "enqueue" =>
                  cli[c].jobData.id # NULL /\ cli[c].jobData.command # NULL
          /\ \A id \in DOMAIN jobs : id # NULL /\ jobs[id].command # NULL)

\* a caller is idle while the table holds a job: an enqueue without id, or without
\* command, is refused here
C17_Witness ==
    /\ cli["c1"] = Idle
    /\ "j1" \in DOMAIN jobs
    /\ ENABLED EnqueueCheck("c1", [id |-> NULL, command |-> "flaky", max_retries |-> <<1>>])
    /\ ENABLED EnqueueCheck("c1", [id |-> "j2", command |-> NULL, max_retries |-> <<1>>])

\* C18: an enqueue call whose id exists, at its check or by the time of its insert,
\* creates nothing and leaves every existing job record as it was; an insert only ever
\* adds the one row of a new id
C18_UniqueIds ==
    [][\A c \in Clients :
          /\ (cli[c].op = "enqueue" /\ cli'[c] = Idle) =>
                /\ \A id \in DOMAIN jobs : id \in DOMAIN jobs' /\ jobs'[id] = jobs[id]
                /\ cli[c].jobData.id \in DOMAIN jobs => jobs' = jobs
                /\ DOMAIN jobs' \subseteq DOMAIN jobs \cup {cli[c].jobData.id}
          /\ \A jobData \in CliDescriptors :
                (EnqueueCheck(c, jobData) /\ jobData.id \in DOMAIN jobs) =>
                   cli'[c] = Idle /\ jobs' = jobs]_vars

\* two enqueues of j1 raced: one caller's row is in the table, under another
\* max_retries than the descriptor the second caller is about to insert
C18_Witness ==
    \E c \in Clients :
        /\ cli[c].op = "enqueue"
        /\ cli[c].jobData.id \in DOMAIN jobs
        /\ cli[c].jobData.max_retries # <<jobs[cli[c].jobData.id].max_retries>>

\* C19: the row an enqueue creates has the max_retries of its descriptor when the
\* descriptor names one (0 included), and otherwise the max_retries the config table
\* holds at that moment (0 included)
C19_MaxRetriesAtCreation ==
    [][\A c \in Clients :
          (/\ cli[c].op = "enqueue" /\ cli'[c] = Idle
           /\ cli[c].jobData.id \notin DOMAIN jobs) =>
             LET jobData == cli[c].jobData IN
             /\ jobData.id \in DOMAIN jobs'
             /\ jobs'[jobData.id].max_retries =
                   IF jobData.max_retries # <<>>
                   THEN jobData.max_retries[1]
                   ELSE parseNum(config["max_retries"])]_vars

\* job id is pending with a command that succeeds
PendingSucceeding(id) ==
    IF id \in DOMAIN jobs
    THEN jobs[id].state = "pending" /\ jobs[id].command = "echo ok"
    ELSE FALSE

IsCompleted(id) == IF id \in DOMAIN jobs THEN jobs[id].state = "completed" ELSE FALSE

NothingToDo ==
    \A id \in DOMAIN jobs :
        /\ jobs[id].state # "pending"
        /\ jobs[id].state = "failed" => jobs[id].next_retry_at > now

\* C21: a getNextJob call made while no job is pending and no failed job is due reads
\* twice, returns none (the worker goes to sleep holding no job) and changes no job record
C21_IdleGetNextJob ==
    [][\A w \in Workers :
          /\ (wpc[w] = "poll" /\ wpc'[w] # "poll" /\ NothingToDo) =>
                wpc'[w] = "retry" /\ jobs' = jobs
          /\ (wpc[w] = "retry" /\ wpc'[w] # "retry" /\ NothingToDo) =>
                wpc'[w] = "sleep" /\ wjob'[w] = NoJob /\ jobs' = jobs]_vars

\* a worker is asleep for the second time while a failed job is not yet due: its calls
\* at t=0 and t=1 both returned none
C21_Witness ==
    \E w \in Workers : \E id \in DOMAIN jobs :
        /\ wpc[w] = "sleep" /\ wake[w] = 2 /\ now = 1
        /\ jobs[id].state = "failed" /\ jobs[id].next_retry_at = 2
        /\ NothingToDo

\* C22: an executeJob whose lockJob finds the job no longer pending returns at once:
\* the command is not started and no field of any job changes
C22_LostRaceNoEffect ==
    [][\A w \in Workers :
          (/\ wpc[w] = "lock" /\ wpc'[w] # "lock"
           /\ jobs[wjob[w].id].state # "pending") =>
             /\ wpc'[w] = "poll"
             /\ wjob'[w] = NoJob
             /\ execs' = execs
             /\ jobs' = jobs]_vars

\* a worker is about to call lockJob on a job that the other worker has already run
\* to its end
C22_Witness ==
    \E w \in Workers :
        /\ wpc[w] = "lock"
        /\ jobs[wjob[w].id].state \in {"completed", "failed", "dead"}
        /\ execs[wjob[w].id] > 0

\* C23: a stop request that finds a job in flight leaves the worker in its execution,
\* and the worker exits only once that job's result is written or more than the grace
\* period has passed; after the request the worker takes no further step of getNextJob
\* or lockJob; a stop request that finds no job in flight ends the worker in that step
C23_GracefulStop ==
    [][\A w \in Workers :
          /\ (stop[w] = NoTime /\ stop'[w] # NoTime) =>
                IF wjob[w] # NoJob
                THEN wpc'[w] = "exec" /\ wjob'[w] = wjob[w]
                ELSE wpc'[w] = "exited"
          /\ (wpc[w] = "exec" /\ wpc'[w] = "exited") =>
                stop[w] # NoTime /\ now - stop[w] > GracePeriod
          /\ (wpc[w] # "exited" /\ wpc'[w] = "exited") => stop'[w] # NoTime
          /\ stop[w] # NoTime =>
                /\ execs' = execs
                /\ wpc'[w] \in {wpc[w], "poll", "exited"}
                /\ \A id \in DOMAIN jobs :
                      jobs'[id].worker_id = w => jobs[id].worker_id = w]_vars

\* the worker was told to stop at t=0 with a job in flight, wrote the job's result at
\* t=1 and has exited; the job is not left processing
C23_Witness ==
    /\ stop["w1"] = 0 /\ wpc["w1"] = "exited" /\ now = 1
    /\ \E id \in DOMAIN jobs :
          /\ jobs[id].state \in {"completed", "failed"}
          /\ execs[id] = 1

\* the jobs that are processing under worker w's id
OwnedBy(w) ==
    {id \in DOMAIN jobs : jobs[id].state = "processing" /\ jobs[id].worker_id = w}

\* C24: at most one job is processing under any one worker id, and a job is processing
\* under a worker's id only while that worker is inside its executeJob of that job: the
\* worker is never in getNextJob, lockJob or its sleep with an execution outstanding
C24_OneJobPerWorker ==
    \A w \in Workers :
        /\ Cardinality(OwnedBy(w)) <= 1
        /\ \A id \in OwnedBy(w) : wpc[w] = "exec" /\ wjob[w].id = id

\* C25: a worker that has not been told to stop never terminates; an error thrown at any
\* statement of getNextJob or executeJob leaves it asleep for the polling interval with
\* no job in hand and the jobs table as it was, and every sleep that ends within the
\* clock's range is followed by a new poll
C25_LoopSurvivesErrors ==
    /\ [][\A w \in Workers :
             /\ (LoopError(w) /\ wpc'[w] # wpc[w]) =>
                   /\ wpc'[w] = "sleep"
                   /\ wjob'[w] = NoJob
                   /\ wake'[w] = now + PollSeconds
                   /\ jobs' = jobs
             /\ (wpc[w] = "sleep" /\ wpc'[w] # "sleep") =>
                   wpc'[w] = "poll" /\ now >= wake[w]]_vars
    /\ [](\A w \in Workers : stop[w] = NoTime => wpc[w] # "exited")
    /\ [](wpc["w1"] = "sleep" /\ wake["w1"] <= MaxTime => <>(wpc["w1"] = "poll"))

\* the result write of an execution threw: the worker sleeps with no job in hand while
\* the job it ran is still processing under its id
C25_Witness ==
    /\ wpc["w1"] = "sleep" /\ wjob["w1"] = NoJob /\ wake["w1"] = now + PollSeconds
    /\ \E id \in DOMAIN jobs :
          /\ jobs[id].state = "processing" /\ jobs[id].worker_id = "w1"
          /\ execs[id] = 1

\* C26: since its creation or its last manual DLQ retry, a job's command has been
\* started at most max_retries times
C26_AtMostMaxRetriesExecutions ==
    \A id \in DOMAIN jobs : execs[id] <= jobs[id].max_retries

\* the argument strings that are a number as a whole
IsNumber(value) == value \in {"-1", "0", "1", "2", "3"}

\* C27: a `config set` of max_retries with a value that is not a number or is negative,
\* or of backoff_base with a value that is not a number or is not positive, leaves the
\* config table unchanged
C27_InvalidConfigRejected ==
    [][/\ \A value \in MaxRetriesArgs :
             (SetMaxRetries(value) /\ (~IsNumber(value) \/ parseNum(value) < 0)) =>
                config' = config
       /\ \A value \in BackoffArgs :
             (SetBackoffBase(value) /\ (~IsNumber(value) \/ parseNum(value) <= 0)) =>
                config' = config]_vars

\* the value Storage.init seeds for a key
SeedValue(key) == IF key = "max_retries" THEN "3" ELSE "2"

\* C28: only a process that found the config table empty seeds it; its inserts add
\* max_retries=3 and backoff_base=2 where the key is absent and never change a key the
\* table holds; and after a set of a key with a valid number, get of that key returns
\* that number while the other key is as it was
C28_SeedAndSetGet ==
    [][/\ \A c \in Clients :
             /\ (cli[c] = Idle /\ cli'[c].op = "seed max_retries") => config = <<>>
             /\ (cli[c].op \in {"seed max_retries", "seed backoff_base"}
                   /\ cli'[c] # cli[c]) =>
                   /\ \A key \in DOMAIN config :
                         key \in DOMAIN config' /\ config'[key] = config[key]
                   /\ \A key \in DOMAIN config' \ DOMAIN config :
                         config'[key] = SeedValue(key)
       /\ \A value \in MaxRetriesArgs :
             (SetMaxRetries(value) /\ IsNumber(value) /\ parseNum(value) >= 0) =>
                /\ getMaxRetries' = parseNum(value)
                /\ getConfig("max_retries")' = value
                /\ getConfig("backoff_base")' = getConfig("backoff_base")
       /\ \A value \in BackoffArgs :
             (SetBackoffBase(value) /\ IsNumber(value) /\ parseNum(value) > 0) =>
                /\ getBackoffBase' = parseNum(value)
                /\ getConfig("backoff_base")' = value
                /\ getConfig("max_retries")' = getConfig("max_retries")]_vars

\* a process that found the table empty is about to seed max_retries, while another has
\* seeded both keys and both have since been set to other values
C28_Witness ==
    /\ \E c \in Clients : cli[c].op = "seed max_retries"
    /\ DOMAIN config = {"max_retries", "backoff_base"}
    /\ config["max_retries"] = "0"
    /\ config["backoff_base"] = "1"

\* the job in worker w's hand is processing and claimed by w
Owns(w) ==
    /\ wjob[w] # NoJob
    /\ wjob[w].id \in DOMAIN jobs
    /\ jobs[wjob[w].id].state = "processing"
    /\ jobs[wjob[w].id].worker_id = w

\* C29: every result write of executeJob (to completed, failed or dead) is applied to a
\* job that is, at the moment of the write, processing with worker_id equal to the
\* writing worker
C29_ResultWriteOnOwnedJob ==
    [][\A w \in Workers : (ExecSuccess(w) \/ ExecFailure(w)) => Owns(w)]_vars

\* C30: the write of getNextJob that re-queues a due retry (state = pending) is applied
\* only to a job that is in state failed at the moment of the write
C30_RequeueOnlyFailed ==
    [][\A w \in Workers : Requeue(w) => jobs[wjob[w].id].state = "failed"]_vars

\* C31: getNextJob checks the pending pool first: a call that finds a pending job returns
\* a pending job and goes on to claim it without re-queueing anything, even if failed jobs
\* are due; the retry pool is looked at, and a failed job re-queued, only by a call whose
\* look at the pending pool found it empty
C31_PendingPoolFirst ==
    [][\A w \in Workers :
          /\ (wpc[w] = "poll" /\ wpc'[w] # "poll" /\ wpc'[w] # "sleep"
                /\ listJobs("pending") # {}) =>
                /\ wpc'[w] = "lock"
                /\ wjob'[w].id \in listJobs("pending")
                /\ jobs' = jobs
          /\ (wpc'[w] = "retry" /\ wpc[w] # "retry") =>
                wpc[w] = "poll" /\ listJobs("pending") = {}
          /\ (wpc'[w] = "requeue" /\ wpc[w] # "requeue") => wpc[w] = "retry"
          /\ Requeue(w) => wpc[w] = "requeue"]_vars

\* a worker's getNextJob has returned a pending job while a failed job was due
C31_Witness ==
    \E w \in Workers :
        /\ wpc[w] = "lock"
        /\ wjob[w] # NoJob
        /\ wjob[w].id \in listJobs("pending")
        /\ \E o \in DOMAIN jobs :
              /\ Retryable(o)
              /\ \A v \in Workers : wjob[v] = NoJob \/ wjob[v].id # o

\* C32: when no job is pending and failed jobs are due, getNextJob takes the due job with
\* the earliest next_retry_at, its re-queue writes that one row and no other (to pending),
\* and the record it returns is that job's
C32_EarliestDueRetry ==
    [][\A w \in Workers :
          /\ (wpc[w] = "retry" /\ wpc'[w] = "requeue") =>
                /\ Retryable(wjob'[w].id)
                /\ \A o \in DOMAIN jobs :
                      Retryable(o) =>
                         jobs[wjob'[w].id].next_retry_at <= jobs[o].next_retry_at
          /\ Requeue(w) =>
                /\ jobs'[wjob[w].id].state = "pending"
                /\ \A id \in DOMAIN jobs : id # wjob[w].id => jobs'[id] = jobs[id]
          /\ Reread(w) => wjob'[w].id = wjob[w].id]_vars

\* two failed jobs are due at different times, none is pending, and the worker's
\* getNextJob has selected one of them
C32_Witness ==
    /\ wpc["w1"] = "requeue"
    /\ listJobs("pending") = {}
    /\ \E id, o \in DOMAIN jobs :
          /\ Retryable(id) /\ Retryable(o)
          /\ jobs[id].next_retry_at < jobs[o].next_retry_at
          /\ wjob["w1"].id = id

\* C33: every dead job has attempts >= max_retries, and a job becomes dead only by the
\* result write of a failed execution whose post-increment attempts is >= max_retries
C33_DeadOnlyAtThreshold ==
    /\ [](\A id \in DOMAIN jobs :
             jobs[id].state = "dead" => jobs[id].attempts >= jobs[id].max_retries)
    /\ [][\A id \in DOMAIN jobs :
             (jobs[id].state # "dead" /\ jobs'[id].state = "dead") =>
                \E w \in Workers :
                   /\ ExecFailure(w)
                   /\ wjob[w].id = id
                   /\ wjob[w].attempts + 1 >= jobs[id].max_retries
                   /\ jobs'[id].attempts = wjob[w].attempts + 1]_vars

\* a job that was retried from the DLQ has exhausted its fresh budget and is dead again
C33_Witness ==
    \E id \in DOMAIN jobs :
        /\ id \in revived
        /\ jobs[id].state = "dead"
        /\ jobs[id].attempts = jobs[id].max_retries
        /\ execs[id] = jobs[id].attempts

\* C34: whenever no execution of a job is in progress, its stored attempts equals the
\* number of executions of its command started since its creation or its last manual
\* DLQ retry, successful or failed
C34_AttemptsCountExecutions ==
    \A id \in DOMAIN jobs :
        (jobs[id].state # "processing" /\ \A w \in Workers : ~(wpc[w] = "exec" /\ wjob[w].id = id)) =>
            jobs[id].attempts = execs[id]

\* job id has been enqueued
Enqueued(id) == id \in DOMAIN jobs

\* job id is completed or dead
Finished(id) ==
    IF id \in DOMAIN jobs THEN jobs[id].state \in {"completed", "dead"} ELSE FALSE

\* the modelled clock ends before job id can be taken up again: its retry is due after
\* the last instant, or it is pending and every worker sleeps until after the last instant
OutOfTime(id) ==
    IF id \in DOMAIN jobs
    THEN \/ /\ jobs[id].state = "failed"
            /\ jobs[id].attempts < jobs[id].max_retries
            /\ jobs[id].next_retry_at > LiveMaxTime
         \/ /\ jobs[id].state = "pending"
            /\ \A w \in Workers : wpc[w] = "sleep" /\ wake[w] > LiveMaxTime
    ELSE FALSE

\* C35: with workers that keep running, commands that terminate and a clock that keeps
\* advancing, every enqueued job reaches completed or dead, unless the modelled clock ends
\* before its next retry is due or before a sleeping worker wakes
C35_EveryJobFinishes ==
    \A id \in JobIds : [](Enqueued(id) => <>(Finished(id) \/ OutOfTime(id)))

\* a job has failed, waited for its backoff, been retried and died, with both workers
\* still running
C35_Witness ==
    \E id \in DOMAIN jobs :
        /\ jobs[id].state = "dead"
        /\ jobs[id].attempts = 2
        /\ jobs[id].command = "exit 1"
        /\ now < LiveMaxTime
        /\ \A w \in Workers : wpc[w] # "exited"

\* C36: no operation deletes a job (every id in the table stays in it), and the counts
\* of getStats sum to the number of jobs successfully enqueued: 0 at the start, one more
\* with every insert of enqueue that succeeds, unchanged by every other step
C36_NoDeleteStatsTotal ==
    /\ Total = 0
    /\ [](Total = Cardinality(DOMAIN jobs))
    /\ [][/\ DOMAIN jobs \subseteq DOMAIN jobs'
          /\ Total' = Total +
                (IF \E c \in Clients :
                       /\ cli[c].op = "enqueue"
                       /\ EnqueueInsert(c)
                       /\ ~primaryKeyConflict(cli[c].jobData.id)
                 THEN 1 ELSE 0)]_vars

\* a job has been through the DLQ and a manual retry and is dead again: it is the one
\* job counted
C36_Witness ==
    /\ revived # {}
    /\ getStats["dead"] = 1
    /\ Total = 1
    /\ \E c \in Clients : cli[c].op = "enqueue"

\* C37: after creation no step (claim, result write, re-queue, DLQ retry, configuration
\* change) changes a job's id, command, max_retries or created_at; a change of the
\* configured max_retries leaves the max_retries of every job as it was
C37_ImmutableFields ==
    [][/\ \A id \in DOMAIN jobs :
             /\ id \in DOMAIN jobs'
             /\ jobs'[id].id = jobs[id].id
             /\ jobs'[id].command = jobs[id].command
             /\ jobs'[id].max_retries = jobs[id].max_retries
             /\ jobs'[id].created_at = jobs[id].created_at
       /\ (config' # config) => (jobs' = jobs)]_vars

\* a job created with max_retries 1 has died, been retried from the DLQ and failed again
\* while the configured max_retries has been changed to 2
C37_Witness ==
    \E id \in revived :
        /\ jobs[id].max_retries = 1
        /\ getMaxRetries = 2
        /\ jobs[id].state = "dead"
        /\ jobs[id].created_at < now

C39_ResultFields ==
    \A id \in DOMAIN jobs :
        /\ jobs[id].state = "completed" =>
              jobs[id].worker_id = NULL /\ jobs[id].error_message = NULL
        /\ jobs[id].state \in {"failed", "dead"} =>
              jobs[id].worker_id = NULL /\ jobs[id].error_message # NULL

\* a job that failed once has been retried and completed: its error message is cleared
C39_Witness ==
    \E id \in DOMAIN jobs :
        /\ jobs[id].state = "completed"
        /\ jobs[id].attempts = 1
        /\ jobs[id].error_message = NULL
        /\ jobs[id].worker_id = NULL

\* C40: the write of retryFromDLQ (state = pending, attempts = 0) is applied only to a job
\* that is dead at the moment of the write
C40_DLQRetryWriteOnlyDead ==
    [][\A c \in Clients :
          (cli[c].op = "dlq" /\ RetryFromDLQWrite(c)) =>
              jobs[cli[c].id].state = "dead"]_vars

====
